---- MODULE Spec2Model ----
(***************************************************************************)
(* A model of src/updater.py, the IGUV weekly updater: one run fetches the *)
(* event listing, asks the generation service for a digest, renders an     *)
(* HTML fragment and posts it to the WordPress endpoint.                   *)
(*                                                                         *)
(* Strings are sequences of characters.  A Python value (the parsed JSON   *)
(* of the generation response) is a tagged record, see PNull .. PDict.     *)
(* A calendar date is a record [y, m, d].                                  *)
(***************************************************************************)
EXTENDS Integers, Sequences, FiniteSets, TLC

VARIABLES
    pc,          \* position of main(): start, env_ok, fetched, generated, rendered, posted, done, raised, exited
    settings,    \* the module-level configuration read from the environment at import
    events,      \* main's local `events`
    digest,      \* main's local `digest`
    html_out,    \* main's local `html_out`: the parts of the rendered fragment
    net,         \* the network requests issued so far, in order
    steps,       \* the calls of main() that have returned, in order
    log,         \* the lines printed so far that the claims speak about
    error,       \* the exception that left main(), or NoError
    exit_code,   \* the process exit status, -1 while running
    inputs,      \* what the outside world answered: listing, generation and publish responses
    fx,          \* the extractor harness: one call of fetch_upcoming_iguv_events
    dx           \* the date harness: one call of _extract_date_any

vars == <<pc, settings, events, digest, html_out, net, steps, log, error, exit_code, inputs, fx, dx>>

runVars == <<pc, settings, events, digest, html_out, net, steps, log, error, exit_code, inputs>>

(***************************************************************************)
(* Bounds of the model.                                                    *)
(***************************************************************************)
\* words of a text handed to _extract_date_any in the date harness
MaxTokens == 2
\* nodes of a listing document in the extractor harness
MaxNodes == 2
\* characters of a string field of the generation response
MaxStrLen == 2
\* largest EVENTS_COUNT the environment sets
MaxEventsCount == 2

(***************************************************************************)
(* Sequences.                                                              *)
(***************************************************************************)
Min(a, b) == IF a <= b THEN a ELSE b

Range(s) == {s[i] : i \in 1..Len(s)}

\* Python's s[:n] for n >= 0
Take(s, n) == SubSeq(s, 1, Min(n, Len(s)))

\* Python's s[:n] for any integer n
SliceTo(s, n) == IF n >= 0 THEN Take(s, n) ELSE SubSeq(s, 1, Len(s) + n)

\* every sequence over S of length at most n
SeqsUpTo(S, n) == UNION {[1..k -> S] : k \in 0..n}

(***************************************************************************)
(* Calendar dates: datetime.date(yyyy, mm, dd) raises ValueError outside   *)
(* the proleptic Gregorian calendar of years 1..9999.                      *)
(***************************************************************************)
IsLeap(y) == (y % 4 = 0) /\ ((y % 100 # 0) \/ (y % 400 = 0))

DaysInMonth(y, m) ==
    IF m = 2 THEN (IF IsLeap(y) THEN 29 ELSE 28)
    ELSE IF m \in {4, 6, 9, 11} THEN 30 ELSE 31

ValidDate(y, m, d) ==
    /\ 1 <= y /\ y <= 9999
    /\ 1 <= m /\ m <= 12
    /\ 1 <= d /\ d <= DaysInMonth(y, m)

\* the result of a function returning Optional[date]
NoDate == [some |-> FALSE]

SomeDate(y, m, d) == [some |-> TRUE, y |-> y, m |-> m, d |-> d]

\* d1 < d2 on dates; also the order of their isoformat() strings
DateLT(a, b) ==
    \/ a.y < b.y
    \/ a.y = b.y /\ a.m < b.m
    \/ a.y = b.y /\ a.m = b.m /\ a.d < b.d

(***************************************************************************)
(* _extract_date_any.  A text is a sequence of whitespace-separated words. *)
(* A word is a plain word [k |-> "w"], a numeric date literal dd.mm.yyyy   *)
(* [k |-> "num"] (a match of DATE_RX_NUM) or a textual date literal        *)
(* "dd. Monat yyyy" [k |-> "mon"] (a match of DATE_RX_TEXT).  The plain    *)
(* word Word(c, w) is the letter c written w times.                        *)
(***************************************************************************)
Word(c, w) == [k |-> "w", c |-> c, w |-> w]

NumLit(dd, mm, yyyy) == [k |-> "num", dd |-> dd, mm |-> mm, yyyy |-> yyyy]

MonLit(dd, mon, yyyy) == [k |-> "mon", dd |-> dd, mon |-> mon, yyyy |-> yyyy]

\* str.lower() on the words and names the model uses
Lower(w) ==
    CASE w = "Mai" -> "mai" [] w = "Februar" -> "februar"
      [] w = "FINMA-Updates" -> "finma-updates"
      [] w = "AO-Aenderungen" -> "ao-aenderungen"
      [] w = "Sanktionen & Embargos" -> "sanktionen & embargos"
      [] w = "Branchenstimmung" -> "branchenstimmung"
      [] w = "Parlamentarische Agenda" -> "parlamentarische agenda"
      [] OTHER -> w

\* MONTHS_DE.get(mon, None); 0 stands for None
MONTHS_DE(mon) ==
    CASE mon = "januar" -> 1 [] mon = "februar" -> 2 [] mon = "maerz" -> 3
      [] mon = "april" -> 4 [] mon = "mai" -> 5 [] mon = "juni" -> 6
      [] mon = "juli" -> 7 [] mon = "august" -> 8 [] mon = "september" -> 9
      [] mon = "oktober" -> 10 [] mon = "november" -> 11 [] mon = "dezember" -> 12
      [] OTHER -> 0

\* re.search: the position of the leftmost word of kind k, 0 when there is none
Search(txt, k) ==
    IF \E i \in 1..Len(txt) : txt[i].k = k
    THEN CHOOSE i \in 1..Len(txt) : txt[i].k = k /\ \A j \in 1..(i - 1) : txt[j].k # k
    ELSE 0

\* the second family, tried when the first returned nothing
ExtractText(txt) ==
    LET i == Search(txt, "mon") IN
    IF i = 0 THEN NoDate
    ELSE LET mm == MONTHS_DE(Lower(txt[i].mon)) IN
         IF mm # 0 /\ ValidDate(txt[i].yyyy, mm, txt[i].dd)
         THEN SomeDate(txt[i].yyyy, mm, txt[i].dd)
         ELSE NoDate

_extract_date_any(txt) ==
    LET i == Search(txt, "num") IN
    IF i # 0 /\ ValidDate(txt[i].yyyy, txt[i].mm, txt[i].dd)
    THEN SomeDate(txt[i].yyyy, txt[i].mm, txt[i].dd)
    ELSE ExtractText(txt)

(***************************************************************************)
(* Text helpers.  A string is a sequence of characters; "lt;", "gt;",      *)
(* "amp;" and "quot;" stand for those character runs (the names of the     *)
(* entities html.escape writes), and a section name, a key or a rendered   *)
(* date is one character of its own.                                       *)
(***************************************************************************)
EntityNames == {"lt;", "gt;", "amp;", "quot;"}

EntityChar(n) ==
    CASE n = "lt;" -> "<" [] n = "gt;" -> ">" [] n = "amp;" -> "&" [] OTHER -> "\""

RECURSIVE unescape(_)
\* html.unescape: one left-to-right pass, the replacement is not rescanned
unescape(s) ==
    IF s = <<>> THEN <<>>
    ELSE IF s[1] = "&" /\ Len(s) >= 2 /\ s[2] \in EntityNames
         THEN <<EntityChar(s[2])>> \o unescape(SubSeq(s, 3, Len(s)))
         ELSE <<s[1]>> \o unescape(Tail(s))

\* the index of the first ">" at or after position i, 0 when there is none
FirstGt(s, i) ==
    IF \E j \in i..Len(s) : s[j] = ">"
    THEN CHOOSE j \in i..Len(s) : s[j] = ">" /\ \A h \in i..(j - 1) : s[h] # ">"
    ELSE 0

RECURSIVE TagStrip(_)
\* _TAG_RX.sub("", s) with _TAG_RX = <[^>]+>
TagStrip(s) ==
    IF s = <<>> THEN <<>>
    ELSE IF s[1] = "<" /\ Len(s) >= 3 /\ s[2] # ">" /\ FirstGt(s, 3) # 0
         THEN TagStrip(SubSeq(s, FirstGt(s, 3) + 1, Len(s)))
         ELSE <<s[1]>> \o TagStrip(Tail(s))

RECURSIVE Collapse(_)
\* WS_RX.sub(" ", s): a run of whitespace becomes one blank
Collapse(s) ==
    IF s = <<>> THEN <<>>
    ELSE IF s[1] = " " /\ Len(s) >= 2 /\ s[2] = " " THEN Collapse(Tail(s))
         ELSE <<s[1]>> \o Collapse(Tail(s))

RECURSIVE LStrip(_)
LStrip(s) == IF s # <<>> /\ s[1] = " " THEN LStrip(Tail(s)) ELSE s

RECURSIVE RStrip(_)
RStrip(s) == IF s # <<>> /\ s[Len(s)] = " " THEN RStrip(SubSeq(s, 1, Len(s) - 1)) ELSE s

\* str.strip()
Strip(s) == RStrip(LStrip(s))

\* sanitize_text on a non-empty str
SanitizeStr(s) == Strip(Collapse(TagStrip(unescape(s))))

RECURSIVE html_escape(_)
\* html.escape(s), quote=True
html_escape(s) ==
    IF s = <<>> THEN <<>>
    ELSE (CASE s[1] = "&" -> <<"&", "amp;">>
            [] s[1] = "<" -> <<"&", "lt;">>
            [] s[1] = ">" -> <<"&", "gt;">>
            [] s[1] = "\"" -> <<"&", "quot;">>
            [] OTHER -> <<s[1]>>) \o html_escape(Tail(s))

\* the ISO dates (ten characters each, one character of the model) a field may hold
IsoDates == {"2025-03-15"}

\* ch_date_str(d) for the ISO dates of the model
ch_date_str(iso) == IF iso = "2025-03-15" THEN "15. Maerz 2025" ELSE iso

\* parse_iso_or_ch: strptime reads s[:10]; anything else is returned as it came
parse_iso_or_ch(s0) ==
    LET s == Strip(s0) IN
    IF s = <<>> THEN <<>>
    ELSE IF s[1] \in IsoDates THEN <<ch_date_str(s[1])>> ELSE s

(***************************************************************************)
(* Python values: what json.loads returns.  A dict is a function over the  *)
(* keys of the model; a key it does not hold maps to Absent.               *)
(***************************************************************************)
Keys == {"briefing", "sections", "name", "items", "title", "url", "date_iso", "issuer", "summary"}

\* the keys call_openai cleans, in its order
ItemKeys == <<"title", "url", "date_iso", "issuer", "summary">>

Absent == [t |-> "absent"]

PNull == [t |-> "null"]

PNum(n) == [t |-> "num", n |-> n]

PStr(s) == [t |-> "str", s |-> s]

PList(l) == [t |-> "list", l |-> l]

\* the dict holding exactly the fields of the record r
PDict(r) == [t |-> "dict", d |-> [k \in Keys |-> IF k \in DOMAIN r THEN r[k] ELSE Absent]]

EmptyDict == [t |-> "dict", d |-> [k \in Keys |-> Absent]]

\* bool(v); an absent key reads as None
Truthy(v) ==
    CASE v.t = "num" -> v.n # 0
      [] v.t = "str" -> v.s # <<>>
      [] v.t = "list" -> v.l # <<>>
      [] v.t = "dict" -> \E k \in Keys : v.d[k] # Absent
      [] OTHER -> FALSE

\* the outcome of an expression that may raise
Ok(v) == [ok |-> TRUE, val |-> v]

Raise == [ok |-> FALSE, val |-> PNull]

\* the keys a dict holds, in a fixed order
KeySeq(d) ==
    LET all == <<"briefing", "sections", "name", "items", "title", "url", "date_iso", "issuer", "summary">>
    IN SelectSeq(all, LAMBDA k : d[k] # Absent)

\* `for x in v`: the elements, or a TypeError
Iterate(v) ==
    CASE v.t = "list" -> Ok(v.l)
      [] v.t = "str" -> Ok([i \in 1..Len(v.s) |-> PStr(<<v.s[i]>>)])
      [] v.t = "dict" -> Ok([i \in 1..Len(KeySeq(v.d)) |-> PStr(<<KeySeq(v.d)[i]>>)])
      [] OTHER -> Raise

\* v.get(k): the value, None for a missing key; only a dict has .get
Get(v, k) == IF v.d[k] = Absent THEN PNull ELSE v.d[k]

\* `k in v`: membership, a substring test on a str, a TypeError on None or a number
Contains(k, v) ==
    CASE v.t = "dict" -> Ok(v.d[k] # Absent)
      [] v.t = "str" -> Ok(\E i \in 1..Len(v.s) : v.s[i] = k)
      [] v.t = "list" -> Ok(\E i \in 1..Len(v.l) : v.l[i] = PStr(<<k>>))
      [] OTHER -> [ok |-> FALSE, val |-> FALSE]

\* sanitize_text(s): "" for a falsy value, the cleaned text of a str, a TypeError in
\* html.unescape or re.sub for anything else
sanitize_text(v) ==
    IF ~Truthy(v) THEN Ok(<<>>)
    ELSE IF v.t = "str" THEN Ok(SanitizeStr(v.s))
    ELSE [ok |-> FALSE, val |-> <<>>]

\* (v or dflt).strip(): an AttributeError when v is truthy and no str
StripOr(v, dflt) ==
    IF ~Truthy(v) THEN Ok(Strip(dflt))
    ELSE IF v.t = "str" THEN Ok(Strip(v.s))
    ELSE [ok |-> FALSE, val |-> <<>>]

\* str(v): the text of a str, the repr of anything else
Str(v) == IF v.t = "str" THEN v.s ELSE <<"repr">>

(***************************************************************************)
(* call_openai: the generation call and the local repair of its answer.    *)
(* A response is [exc, valid, wrap, val]: the call raised (exc), or it     *)
(* returned text that is the JSON text of val (valid) or no JSON at all,   *)
(* bare (wrap = "none"), inside prose without braces ("prose") or inside   *)
(* prose that holds a brace of its own ("braces").                         *)
(***************************************************************************)
EMPTY_DIGEST == PDict([briefing |-> PList(<<>>), sections |-> PList(<<>>)])

RECURSIVE HasBrace(_)
\* whether the JSON text of v holds a "{" (the strings of the model hold none)
HasBrace(v) ==
    \/ v.t = "dict"
    \/ v.t = "list" /\ \E i \in 1..Len(v.l) : HasBrace(v.l[i])

RECURSIVE Isolate(_)
\* json.loads(raw[raw.find("{") : raw.rfind("}") + 1]) for a text that holds a brace
Isolate(v) ==
    IF v.t = "dict" THEN Ok(v)
    ELSE LET B == {i \in 1..Len(v.l) : HasBrace(v.l[i])} IN
         IF Cardinality(B) = 1 THEN Isolate(v.l[CHOOSE i \in B : TRUE]) ELSE Raise

\* lines 304-307: the slice between the first "{" and the last "}", then json.loads
JsonLoads(resp) ==
    IF ~resp.valid \/ resp.wrap = "braces" THEN Raise
    ELSE IF HasBrace(resp.val) THEN Isolate(resp.val)
    ELSE IF resp.wrap = "none" THEN Ok(resp.val)
    ELSE Raise

\* lines 313-315 for one item of a section
SanitizeItem(it) ==
    IF it.t = "dict"
    THEN IF \A i \in 1..Len(ItemKeys) : sanitize_text(Get(it, ItemKeys[i])).ok
         THEN Ok([t |-> "dict",
                  d |-> [k \in Keys |->
                           IF k \in Range(ItemKeys) /\ it.d[k] # Absent
                           THEN PStr(sanitize_text(it.d[k]).val)
                           ELSE it.d[k]]])
         ELSE Raise
    ELSE IF \A i \in 1..Len(ItemKeys) :
               Contains(ItemKeys[i], it).ok /\ ~Contains(ItemKeys[i], it).val
         THEN Ok(it)
         ELSE Raise

\* sec.get("items", []) or []
ItemsOf(sec) == IF Truthy(Get(sec, "items")) THEN Get(sec, "items") ELSE PList(<<>>)

\* lines 311-315 for one section
SanitizeSection(sec) ==
    IF sec.t # "dict" THEN Raise
    ELSE LET its == Iterate(ItemsOf(sec)) IN
         IF ~its.ok \/ \E i \in 1..Len(its.val) : ~SanitizeItem(its.val[i]).ok THEN Raise
         ELSE IF ItemsOf(sec).t = "list" /\ Truthy(Get(sec, "items"))
         THEN Ok([sec EXCEPT !.d["items"] =
                    PList([i \in 1..Len(its.val) |-> SanitizeItem(its.val[i]).val])])
         ELSE Ok(sec)

\* lines 308-316 on the parsed value
CleanData(data) ==
    IF data.t # "dict" THEN Raise
    ELSE LET d1 == [data EXCEPT
                      !.d["briefing"] = IF @ = Absent THEN PList(<<>>) ELSE @,
                      !.d["sections"] = IF @ = Absent THEN PList(<<>>) ELSE @]
             secs == Iterate(d1.d["sections"])
         IN IF ~secs.ok \/ \E i \in 1..Len(secs.val) : ~SanitizeSection(secs.val[i]).ok
            THEN Raise
            ELSE IF d1.d["sections"].t = "list"
            THEN Ok([d1 EXCEPT !.d["sections"] =
                       PList([i \in 1..Len(secs.val) |-> SanitizeSection(secs.val[i]).val])])
            ELSE Ok(d1)

\* call_openai after the client is built: never raises
call_openai(resp) ==
    IF resp.exc THEN EMPTY_DIGEST
    ELSE IF JsonLoads(resp).ok /\ CleanData(JsonLoads(resp).val).ok
    THEN CleanData(JsonLoads(resp).val).val
    ELSE EMPTY_DIGEST

(***************************************************************************)
(* render_html.  The fragment is the list `parts`; a part is a record      *)
(* whose k names the markup and whose other fields are the interpolated    *)
(* texts.  An operator returns [ok, val]: ok is FALSE when the code        *)
(* raises.                                                                 *)
(***************************************************************************)
NoParts == [ok |-> FALSE, val |-> <<>>]

\* the five digest sections of lines 391-395, in order
SectionTitles ==
    <<"FINMA-Updates", "AO-Aenderungen", "Sanktionen & Embargos", "Branchenstimmung",
      "Parlamentarische Agenda">>

EventsTitle == "Naechste Events"

EmptyMsg == "Keine neuen, relevanten Meldungen."

\* v[:n] of lines 349 and 371: a list or a str can be sliced, nothing else
Slice(v, n) ==
    CASE v.t = "list" -> Ok(Take(v.l, n))
      [] v.t = "str" -> Ok([i \in 1..Min(n, Len(v.s)) |-> PStr(<<v.s[i]>>)])
      [] OTHER -> Raise

\* lines 350-355: one entry of the briefing
BriefingItem(b) ==
    IF b.t = "dict"
    THEN LET t == StripOr(Get(b, "title"), <<>>)
             u == StripOr(Get(b, "url"), <<>>)
         IN IF t.ok /\ u.ok
            THEN Ok([k |-> "briefing_link", href |-> html_escape(u.val),
                     text |-> IF t.val # <<>> THEN html_escape(t.val) ELSE html_escape(u.val)])
            ELSE Raise
    ELSE Ok([k |-> "briefing_text", text |-> html_escape(Str(b))])

\* lines 346-356
RenderBriefing(dg) ==
    LET briefing == Get(dg, "briefing") IN
    IF ~Truthy(briefing) THEN Ok(<<>>)
    ELSE LET bs == Slice(briefing, 5) IN
         IF ~bs.ok \/ \E i \in 1..Len(bs.val) : ~BriefingItem(bs.val[i]).ok THEN NoParts
         ELSE Ok(<<[k |-> "note"]>>
                 \o [i \in 1..Len(bs.val) |-> BriefingItem(bs.val[i]).val]
                 \o <<[k |-> "/note"]>>)

RECURSIVE ScanSections(_, _)
\* the loop of get_items over the sections not yet looked at
ScanSections(secs, name) ==
    IF secs = <<>> THEN Ok(PList(<<>>))
    ELSE IF Head(secs).t # "dict" THEN Raise
    ELSE LET nm == StripOr(Get(Head(secs), "name"), <<>>) IN
         IF ~nm.ok THEN Raise
         ELSE IF [i \in 1..Len(nm.val) |-> Lower(nm.val[i])] = <<Lower(name)>>
         THEN Ok(ItemsOf(Head(secs)))
         ELSE ScanSections(Tail(secs), name)

\* get_items(name), lines 358-362
get_items(dg, name) ==
    LET secs == Iterate(IF dg.d["sections"] = Absent THEN PList(<<>>) ELSE dg.d["sections"]) IN
    IF ~secs.ok THEN Raise ELSE ScanSections(secs.val, name)

\* lines 372-388: one item of a section
SectionItem(it) ==
    IF it.t # "dict" THEN Raise
    ELSE LET issuer == sanitize_text(Get(it, "issuer"))
             t == sanitize_text(IF Truthy(Get(it, "title")) THEN Get(it, "title")
                                ELSE PStr(<<"(ohne Titel)">>))
             u == StripOr(Get(it, "url"), <<>>)
             date_iso == StripOr(Get(it, "date_iso"), <<>>)
             summary == sanitize_text(Get(it, "summary"))
         IN IF issuer.ok /\ t.ok /\ u.ok /\ date_iso.ok /\ summary.ok
            THEN Ok([k |-> "li",
                     issuer |-> html_escape(issuer.val),
                     date |-> parse_iso_or_ch(date_iso.val),
                     title |-> html_escape(t.val),
                     url |-> html_escape(u.val),
                     summary |-> html_escape(summary.val)])
            ELSE Raise

\* section(title, key), lines 364-389; title and key are the same at every call
section(dg, title) ==
    LET items == get_items(dg, title) IN
    IF ~items.ok THEN NoParts
    ELSE IF ~Truthy(items.val)
    THEN Ok(<<[k |-> "h2", title |-> title], [k |-> "ul_empty", text |-> EmptyMsg]>>)
    ELSE LET its == Slice(items.val, 7) IN
         IF ~its.ok \/ \E i \in 1..Len(its.val) : ~SectionItem(its.val[i]).ok THEN NoParts
         ELSE Ok(<<[k |-> "h2", title |-> title], [k |-> "ul"]>>
                 \o [i \in 1..Len(its.val) |-> SectionItem(its.val[i]).val]
                 \o <<[k |-> "/ul"]>>)

\* lines 397-413: the events block; an event's title and url hold plain words only,
\* which sanitize_text and html.escape leave as they are
RenderEvents(evs, count) ==
    <<[k |-> "h2", title |-> EventsTitle], [k |-> "ul"]>>
    \o (IF evs # <<>>
        THEN [i \in 1..Len(SliceTo(evs, count)) |->
                [k |-> "li_event", date |-> evs[i].date_iso,
                 title |-> IF evs[i].title # <<>> THEN evs[i].title ELSE <<Word("Event", 1)>>,
                 url |-> evs[i].url]]
        ELSE <<[k |-> "li_no_events"]>>)
    \o <<[k |-> "/ul"]>>

RECURSIVE RenderSections(_, _)
\* the five calls of lines 391-395, from the i-th on
RenderSections(dg, i) ==
    IF i > Len(SectionTitles) THEN Ok(<<>>)
    ELSE LET one == section(dg, SectionTitles[i])
             rest == RenderSections(dg, i + 1)
         IN IF one.ok /\ rest.ok THEN Ok(one.val \o rest.val) ELSE NoParts

\* render_html(digest, events) with EVENTS_COUNT = count
render_html(dg, evs, count) ==
    LET b == RenderBriefing(dg)
        secs == RenderSections(dg, 1)
    IN IF b.ok /\ secs.ok
       THEN Ok(<<[k |-> "css"], [k |-> "div"], [k |-> "h1"], [k |-> "meta"]>>
               \o b.val \o secs.val \o RenderEvents(evs, count)
               \o <<[k |-> "disclaimer"], [k |-> "/div"]>>)
       ELSE NoParts

(***************************************************************************)
(* fetch_upcoming_iguv_events.  The listing response is [err, status,      *)
(* doc]; doc is what BeautifulSoup finds in the page: the sequence of its  *)
(* <time> elements and of the elements of the generic pass, in document    *)
(* order.  A node holds its own text, the text of its parent, the href of  *)
(* the link found for it ("" when none) and, for <time>, the datetime      *)
(* attribute.  The texts hold plain words and date literals only, which    *)
(* sanitize_text leaves as they are.                                       *)
(***************************************************************************)
\* the characters a word of a text takes
Width(tok) == IF tok.k = "w" THEN tok.w ELSE IF tok.k = "num" THEN 10 ELSE 12

RECURSIVE TextCut(_, _)
\* txt[:n] on the words of txt, joined by single blanks
TextCut(txt, n) ==
    IF txt = <<>> \/ n <= 0 THEN <<>>
    ELSE LET tok == Head(txt)
             wd == Width(tok)
         IN IF wd > n
            THEN (IF tok.k = "w" THEN <<Word(tok.c, n)>> ELSE <<[k |-> "cut", of |-> tok, n |-> n]>>)
            ELSE IF wd = n \/ Tail(txt) = <<>> THEN <<tok>>
            ELSE IF TextCut(Tail(txt), n - wd - 1) = <<>> THEN <<tok, [k |-> "sp"]>>
            ELSE <<tok>> \o TextCut(Tail(txt), n - wd - 1)

\* the URL of the listing page, f"{base_url}/event/"
PageUrl == <<"BASE", "/event/">>

\* requests.compat.urljoin(url, href) for the relative links of the model
urljoin(href) == <<"BASE", href>>

\* href or url, after the join of lines 150-151 and 162-163
UrlOf(href) == IF href # "" THEN urljoin(href) ELSE PageUrl

\* a faulty variant, for the sensitivity of the claims: only a server error status counts as a failed fetch
http_get_5xx(resp) ==
    IF resp.err \/ (500 <= resp.status /\ resp.status < 600)
    THEN [some |-> FALSE, text |-> <<>>]
    ELSE [some |-> TRUE, text |-> resp.doc]

\* http_get: None (FALSE) on a transport error or when raise_for_status raises
http_get(resp) ==
    IF resp.err \/ (400 <= resp.status /\ resp.status < 600)
    THEN [some |-> FALSE, text |-> <<>>]
    ELSE [some |-> TRUE, text |-> resp.doc]

\* lines 135-141: the date of the datetime attribute, None when it does not parse
AttrDate(a) ==
    IF a.k = "iso" /\ ValidDate(a.y, a.m, a.d) THEN SomeDate(a.y, a.m, a.d) ELSE NoDate

Candidate(d, title, href) ==
    [date_iso |-> [y |-> d.y, m |-> d.m, d |-> d.d], title |-> TextCut(title, 220),
     url |-> UrlOf(href)]

\* a faulty variant, for the sensitivity of the claims: the `d < today` half of the test of line 144 is missing
TimeCandidateAnyDate(node, today) ==
    LET d == IF AttrDate(node.datetime).some THEN AttrDate(node.datetime)
             ELSE _extract_date_any(node.text)
    IN IF ~d.some THEN <<>> ELSE <<Candidate(d, node.ptext, node.href)>>

\* lines 134-152: the candidate of one <time> element, if any
TimeCandidate(node, today) ==
    LET d == IF AttrDate(node.datetime).some THEN AttrDate(node.datetime)
             ELSE _extract_date_any(node.text)
    IN IF ~d.some \/ DateLT(d, today) THEN <<>>
       ELSE <<Candidate(d, node.ptext, node.href)>>

\* lines 155-165: the candidate of one element of the generic pass, if any
GenericCandidate(node, today) ==
    LET d == IF _extract_date_any(node.text).some THEN _extract_date_any(node.text)
             ELSE _extract_date_any(node.ptext)
    IN IF ~d.some \/ DateLT(d, today) THEN <<>>
       ELSE <<Candidate(d, node.text, node.href)>>

RECURSIVE Concat(_)
Concat(ss) == IF ss = <<>> THEN <<>> ELSE Head(ss) \o Concat(Tail(ss))

\* lines 131-165: the candidates of the first pass, then those of the second
Candidates(doc, today) ==
    LET times == SelectSeq(doc, LAMBDA nd : nd.tag = "time")
        others == SelectSeq(doc, LAMBDA nd : nd.tag # "time")
    IN Concat([i \in 1..Len(times) |-> TimeCandidate(times[i], today)])
       \o Concat([i \in 1..Len(others) |-> GenericCandidate(others[i], today)])

RECURSIVE SortedByDate(_)
\* sorted(candidates, key=lambda it: it["date_iso"]): stable
SortedByDate(cs) ==
    IF cs = <<>> THEN <<>>
    ELSE LET rest == SortedByDate(SubSeq(cs, 1, Len(cs) - 1))
             e == cs[Len(cs)]
             before == SelectSeq(rest, LAMBDA c : ~DateLT(e.date_iso, c.date_iso))
             after == SelectSeq(rest, LAMBDA c : DateLT(e.date_iso, c.date_iso))
         IN before \o <<e>> \o after

\* a faulty variant, for the sensitivity of the claims: the key of line 170 without its date
KeyNoDate(e) == <<[y |-> 0, m |-> 0, d |-> 0], e.url, TextCut(e.title, 80)>>

\* line 170: the key of the dedup
Key(e) == <<e.date_iso, e.url, TextCut(e.title, 80)>>

RECURSIVE DedupLoop(_, _, _, _)
\* lines 169-175: the loop over the candidates not yet looked at
DedupLoop(cs, seen, out, n) ==
    IF cs = <<>> THEN out
    ELSE IF Key(Head(cs)) \in seen THEN DedupLoop(Tail(cs), seen, out, n)
    ELSE IF Len(out) + 1 >= n THEN Append(out, Head(cs))
    ELSE DedupLoop(Tail(cs), seen \cup {Key(Head(cs))}, Append(out, Head(cs)), n)

\* fetch_upcoming_iguv_events(base_url, n) when the listing answers resp on day today
fetch_upcoming_iguv_events(resp, today, n) ==
    LET html_data == http_get(resp) IN
    IF ~html_data.some \/ html_data.text = <<>> THEN <<>>
    ELSE DedupLoop(SortedByDate(Candidates(html_data.text, today)), {}, <<>>, n)

(***************************************************************************)
(* The inputs of the model.                                                *)
(***************************************************************************)
\* date.today()
Todays == {[y |-> 2025, m |-> 3, d |-> 1]}

TimeNode(a, text, ptext, href) ==
    [tag |-> "time", datetime |-> a, text |-> text, ptext |-> ptext, href |-> href]

GenericNode(text, ptext, href) ==
    [tag |-> "li", datetime |-> [k |-> "none"], text |-> text, ptext |-> ptext, href |-> href]

IsoAttr(y, m, d) == [k |-> "iso", y |-> y, m |-> m, d |-> d]

T_plain == <<Word("Event", 1)>>

T_past == <<NumLit(28, 2, 2025), Word("Event", 1)>>

T_today == <<NumLit(1, 3, 2025), Word("Event", 1)>>

T_soon == <<NumLit(2, 3, 2025), Word("Event", 1)>>

T_later == <<Word("Event", 1), MonLit(15, "Mai", 2025)>>

T_never == <<NumLit(31, 4, 2025), Word("Event", 1)>>

\* two texts of more than 80 characters that agree on their first 80
T_long(c) == <<NumLit(2, 3, 2025), Word("x", 80), Word(c, 1)>>

\* a text of more than 220 characters
T_huge == <<NumLit(2, 3, 2025), Word("x", 230)>>

TimeNodes ==
    {TimeNode(a, T_soon, T_plain, "") :
        a \in {[k |-> "none"], [k |-> "bad"], IsoAttr(2025, 3, 5), IsoAttr(2025, 2, 1),
               IsoAttr(2025, 2, 31)}}
    \cup {TimeNode([k |-> "none"], T_plain, T_plain, ""),
          TimeNode(IsoAttr(2025, 3, 5), T_plain, T_soon, "e1")}

GenericNodes ==
    {GenericNode(t, <<>>, "") : t \in {T_plain, T_past, T_today, T_soon, T_later, T_never}}
    \cup {GenericNode(T_plain, p, "") : p \in {T_soon, T_later, T_past}}
    \cup {GenericNode(T_soon, <<>>, "e1"), GenericNode(T_long("a"), <<>>, ""),
          GenericNode(T_long("b"), <<>>, ""), GenericNode(T_huge, <<>>, "")}

Nodes == TimeNodes \cup GenericNodes

Listing(err, status, doc) == [err |-> err, status |-> status, doc |-> doc]

\* the listings of the extractor harness
HarnessListings == {Listing(FALSE, st, doc) : st \in {200, 503}, doc \in SeqsUpTo(Nodes, MaxNodes)}

\* the listings of a run: a transport error and answers of several statuses
RunListings ==
    {Listing(TRUE, 0, <<>>), Listing(FALSE, 200, <<>>),
     Listing(FALSE, 500, <<>>)}
    \cup {Listing(FALSE, st, <<GenericNode(T_soon, <<>>, "e1")>>) : st \in {200, 203, 404}}
    \cup {Listing(FALSE, 200, <<GenericNode(T_soon, <<>>, "e1"), GenericNode(T_later, <<>>, "")>>)}

\* the words of the date harness
DateWords ==
    {NumLit(dd, mm, yyyy) : dd \in {0, 29, 31}, mm \in {2, 12, 13}, yyyy \in {0, 2023, 2024}}
    \cup {MonLit(dd, mon, 2024) : dd \in {1, 31}, mon \in {"Mai", "februar", "foo"}}
    \cup {Word("am", 1)}

\* the characters of a string field of the generation response
Alphabet == {"a", " ", "<", ">", "&", "lt;"}

Strings ==
    SeqsUpTo(Alphabet, MaxStrLen)
    \cup {<<"<", "a", ">", "a">>, <<"a", " ", " ", "a">>, <<"&", "amp;", "lt;">>, <<"2025-03-15">>}

S_a == PStr(<<"a">>)

\* an item whose five fields all hold s
Item(s) == PDict([title |-> PStr(s), url |-> PStr(s), date_iso |-> PStr(s), issuer |-> PStr(s), summary |-> PStr(s)])

Section(name, items) == PDict([name |-> name, items |-> items])

Digest(briefing, sections) == PDict([briefing |-> briefing, sections |-> sections])

\* a digest whose every string field holds s
FullDigest(s) ==
    Digest(PList(<<PDict([title |-> PStr(s), url |-> PStr(s)])>>),
           PList(<<Section(PStr(<<"FINMA-Updates">>), PList(<<Item(s)>>))>>))

NameShapes ==
    {Absent, PNum(5), PStr(<<"FINMA-Updates">>), PStr(<<" ", "finma-updates">>), PStr(<<"Other">>)}

ItemShapes ==
    {PNull, PNum(5), S_a, PList(<<>>), EmptyDict, Item(<<"a">>),
     PDict([title |-> PNum(5)]), PDict([title |-> PNull, url |-> S_a]), PDict([summary |-> PList(<<S_a>>)])}

ItemsShapes ==
    {Absent, PNull, PNum(5), S_a, PStr(<<>>), PList(<<>>), EmptyDict,
     PDict([name |-> S_a]), PDict([title |-> S_a]),
     PList([i \in 1..8 |-> Item(<<"a">>)])}
    \cup {PList(<<it>>) : it \in ItemShapes}

BriefingShapes ==
    {Absent, PNull, PNum(0), PNum(5), S_a, EmptyDict, PDict([title |-> S_a]),
     PList(<<S_a>>), PList(<<PNum(5)>>), PList(<<PNull>>), PList(<<EmptyDict>>),
     PList(<<PDict([title |-> PNum(5)])>>), PList(<<PDict([url |-> PList(<<>>)])>>),
     PList(<<PDict([title |-> S_a, url |-> S_a])>>), PList([i \in 1..6 |-> S_a])}

SectionsShapes ==
    {Absent, PNull, PNum(5), S_a, PStr(<<>>), EmptyDict, PDict([name |-> S_a]),
     PList(<<PNum(5)>>), PList(<<S_a>>), PList(<<PNull>>), PList(<<PList(<<>>)>>),
     PList(<<Section(PStr(<<"Other">>), PList(<<Item(<<"a">>)>>)),
             Section(PStr(<<"AO-Aenderungen">>), PList(<<Item(<<"a">>)>>))>>),
     PList(<<Section(PStr(<<"FINMA-Updates">>), PList(<<Item(<<"a">>)>>)),
             Section(PNum(5), PList(<<>>))>>)}
    \cup {PList(<<Section(nm, its)>>) : nm \in NameShapes, its \in ItemsShapes}

\* the values the text of a generation response may be the JSON of
JsonValues ==
    {PNull, PNum(5), S_a, PList(<<>>), PList(<<S_a>>)}
    \cup {Digest(b, PList(<<>>)) : b \in BriefingShapes}
    \cup {Digest(PList(<<>>), ss) : ss \in SectionsShapes}
    \cup {FullDigest(s) : s \in Strings}

Response(exc, valid, wrap, val) == [exc |-> exc, valid |-> valid, wrap |-> wrap, val |-> val]

Responses ==
    {Response(TRUE, FALSE, "none", PNull), Response(FALSE, FALSE, "none", PNull)}
    \cup {Response(FALSE, TRUE, "none", v) : v \in JsonValues}
    \cup {Response(FALSE, TRUE, w, v) :
            w \in {"prose", "braces"},
            v \in {PNum(5), FullDigest(<<"a">>), PList(<<FullDigest(<<"a">>)>>),
                   PList(<<EmptyDict, EmptyDict>>)}}

WpResponse(err, status, body) == [err |-> err, status |-> status, body |-> body]

\* the answers of the publish endpoint
WpResponses ==
    {WpResponse(TRUE, 0, <<>>), WpResponse(FALSE, 200, <<>>), WpResponse(FALSE, 201, <<"ok">>),
     WpResponse(FALSE, 204, <<>>), WpResponse(FALSE, 302, <<"moved">>),
     WpResponse(FALSE, 403, <<"denied">>), WpResponse(FALSE, 500, <<>>)}

(***************************************************************************)
(* The run: main() under the handler of lines 471-477.                     *)
(***************************************************************************)
\* the settings require_env checks, in its order
RequiredSettings == <<"OPENAI_API_KEY", "WP_BASE", "WP_USERNAME", "WP_APP_PASSWORD">>

RECURSIVE RStripSlash(_)
\* str.rstrip("/") of line 29
RStripSlash(s) == IF s # <<>> /\ s[Len(s)] = "/" THEN RStripSlash(SubSeq(s, 1, Len(s) - 1)) ELSE s

\* the values an environment variable may hold
EnvValues == {<<>>, <<"v">>}

\* lines 24-34: the configuration read at import
Settings ==
    {[OPENAI_API_KEY |-> key, WP_BASE |-> RStripSlash(base), WP_USERNAME |-> user,
      WP_APP_PASSWORD |-> pw, WP_API_TOKEN |-> tok, EVENTS_COUNT |-> n] :
        key \in EnvValues, base \in {<<>>, <<"/">>, <<"BASE">>, <<"BASE", "/">>},
        user \in EnvValues, pw \in EnvValues, tok \in {<<>>}, n \in 0..MaxEventsCount}

NoError == [src |-> "none", missing |-> <<>>, status |-> 0, body |-> <<>>]

NoListing == Listing(FALSE, 0, <<>>)

NoResponse == Response(FALSE, FALSE, "none", PNull)

NoWp == WpResponse(FALSE, 0, <<>>)

IdleFx == [resp |-> NoListing, today |-> [y |-> 2025, m |-> 3, d |-> 1], n |-> 0, out |-> <<>>, done |-> FALSE]

IdleDx == [txt |-> <<>>, res |-> NoDate, done |-> FALSE]

Init ==
    /\ pc = "start"
    /\ settings \in Settings
    /\ events = <<>>
    /\ digest = PNull
    /\ html_out = <<>>
    /\ net = <<>>
    /\ steps = <<>>
    /\ log = <<"== IGUV/INPASU Weekly Updater startet ==">>
    /\ error = NoError
    /\ exit_code = -1
    /\ inputs = [listing |-> NoListing, response |-> NoResponse, wp |-> NoWp]
    /\ fx = IdleFx
    /\ dx = IdleDx

\* a faulty variant, for the sensitivity of the claims: the loop of require_env stops at the first empty setting
MissingFirstOnly(st) == Take(SelectSeq(RequiredSettings, LAMBDA k : st[k] = <<>>), 1)

\* lines 41-49: the names of the empty settings
Missing(st) == SelectSeq(RequiredSettings, LAMBDA k : st[k] = <<>>)

\* line 445: require_env()
RequireEnv ==
    /\ pc = "start"
    /\ IF Missing(settings) # <<>>
       THEN /\ error' = [NoError EXCEPT !.src = "require_env", !.missing = Missing(settings)]
            /\ pc' = "raised"
            /\ steps' = steps
       ELSE /\ pc' = "env_ok"
            /\ steps' = Append(steps, "require_env")
            /\ error' = error
    /\ UNCHANGED <<settings, events, digest, html_out, net, log, exit_code, inputs, fx, dx>>

\* lines 447-448: the fetch of the listing and the extraction of the events
FetchEvents ==
    /\ pc = "env_ok"
    /\ \E resp \in RunListings, today \in Todays :
         /\ inputs' = [inputs EXCEPT !.listing = resp]
         /\ events' = fetch_upcoming_iguv_events(resp, today, settings.EVENTS_COUNT)
    /\ net' = Append(net, [op |-> "GET", to |-> "listing", html |-> <<>>])
    /\ steps' = Append(steps, "fetch_upcoming_iguv_events")
    /\ log' = Append(log, "INFO: Events gefunden")
    /\ pc' = "fetched"
    /\ UNCHANGED <<settings, digest, html_out, error, exit_code, fx, dx>>

\* lines 273-274: the client cannot be built (the import or the constructor raises),
\* outside every try of call_openai
ClientFails ==
    /\ pc = "fetched"
    /\ error' = [NoError EXCEPT !.src = "call_openai"]
    /\ pc' = "raised"
    /\ log' = Append(log, "KI-Zusammenfassung")
    /\ UNCHANGED <<settings, events, digest, html_out, net, steps, exit_code, inputs, fx, dx>>

\* lines 450-461: the generation call, the repair of its answer, the diagnostics
CallOpenAI ==
    /\ pc = "fetched"
    /\ \E resp \in Responses :
         /\ inputs' = [inputs EXCEPT !.response = resp]
         /\ digest' = call_openai(resp)
    /\ net' = Append(net, [op |-> "POST", to |-> "generation", html |-> <<>>])
    /\ steps' = Append(steps, "call_openai")
    /\ log' = Append(log, "KI-Zusammenfassung")
    /\ pc' = "generated"
    /\ UNCHANGED <<settings, events, html_out, error, exit_code, fx, dx>>

\* a faulty variant, for the sensitivity of the claims: an exception of render_html is swallowed and the run goes on
RenderHtmlSwallow ==
    /\ pc = "generated"
    /\ LET r == render_html(digest, events, settings.EVENTS_COUNT) IN
       /\ html_out' = r.val
       /\ steps' = IF r.ok THEN Append(steps, "render_html") ELSE steps
    /\ pc' = "rendered"
    /\ log' = Append(log, "HTML generieren")
    /\ UNCHANGED <<settings, events, digest, net, error, exit_code, inputs, fx, dx>>

\* lines 463-464: render_html(digest, events)
RenderHtml ==
    /\ pc = "generated"
    /\ LET r == render_html(digest, events, settings.EVENTS_COUNT) IN
       IF r.ok
       THEN /\ html_out' = r.val
            /\ steps' = Append(steps, "render_html")
            /\ pc' = "rendered"
            /\ error' = error
       ELSE /\ error' = [NoError EXCEPT !.src = "render_html"]
            /\ pc' = "raised"
            /\ UNCHANGED <<html_out, steps>>
    /\ log' = Append(log, "HTML generieren")
    /\ UNCHANGED <<settings, events, digest, net, exit_code, inputs, fx, dx>>

\* a faulty variant, for the sensitivity of the claims: only a client or server error status fails the update
WpRejectedFrom400(status) == status >= 400

\* line 437: the statuses post_to_wp does not accept
WpRejected(status) == status \notin {200, 201}

\* lines 466-467: post_to_wp(html_out)
PostToWp ==
    /\ pc = "rendered"
    /\ net' = Append(net, [op |-> "POST", to |-> "weekly", html |-> html_out])
    /\ \E wp \in WpResponses :
         /\ inputs' = [inputs EXCEPT !.wp = wp]
         /\ IF wp.err
            THEN /\ error' = [NoError EXCEPT !.src = "post_to_wp"]
                 /\ pc' = "raised"
                 /\ log' = Append(log, "WordPress aktualisieren")
                 /\ steps' = steps
            ELSE IF WpRejected(wp.status)
            THEN /\ error' = [NoError EXCEPT !.src = "post_to_wp", !.status = wp.status,
                                             !.body = wp.body]
                 /\ pc' = "raised"
                 /\ log' = Append(log, "WordPress aktualisieren")
                 /\ steps' = steps
            ELSE /\ log' = log \o <<"WordPress aktualisieren", "SUCCESS">>
                 /\ steps' = Append(steps, "post_to_wp")
                 /\ pc' = "posted"
                 /\ error' = error
    /\ UNCHANGED <<settings, events, digest, html_out, exit_code, fx, dx>>

\* line 469 and the return of main(): the process ends with status 0
Finish ==
    /\ pc = "posted"
    /\ log' = Append(log, "== Fertig ==")
    /\ exit_code' = 0
    /\ pc' = "done"
    /\ UNCHANGED <<settings, events, digest, html_out, net, steps, error, inputs, fx, dx>>

\* lines 474-477: the handler prints the error and the trace and exits with status 2
Exit ==
    /\ pc = "raised"
    /\ log' = Append(log, "ERROR")
    /\ exit_code' = 2
    /\ pc' = "exited"
    /\ UNCHANGED <<settings, events, digest, html_out, net, steps, error, inputs, fx, dx>>

Next ==
    \/ RequireEnv
    \/ FetchEvents
    \/ ClientFails
    \/ CallOpenAI
    \/ RenderHtml
    \/ PostToWp
    \/ Finish
    \/ Exit

Spec == Init /\ [][Next]_vars

(***************************************************************************)
(* The extractor harness: one call of fetch_upcoming_iguv_events on a      *)
(* listing of at most MaxNodes nodes.                                      *)
(***************************************************************************)
IdleRun ==
    /\ pc = "idle"
    /\ settings = [OPENAI_API_KEY |-> <<>>, WP_BASE |-> <<>>, WP_USERNAME |-> <<>>,
                   WP_APP_PASSWORD |-> <<>>, WP_API_TOKEN |-> <<>>, EVENTS_COUNT |-> 0]
    /\ events = <<>>
    /\ digest = PNull
    /\ html_out = <<>>
    /\ net = <<>>
    /\ steps = <<>>
    /\ log = <<>>
    /\ error = NoError
    /\ exit_code = -1
    /\ inputs = [listing |-> NoListing, response |-> NoResponse, wp |-> NoWp]

InitFetch ==
    /\ IdleRun
    /\ dx = IdleDx
    /\ fx \in {[resp |-> r, today |-> t, n |-> n, out |-> <<>>, done |-> FALSE] :
                 r \in HarnessListings, t \in Todays, n \in 0..MaxEventsCount}

Fetch ==
    /\ ~fx.done
    /\ fx' = [fx EXCEPT !.out = fetch_upcoming_iguv_events(fx.resp, fx.today, fx.n), !.done = TRUE]
    /\ UNCHANGED <<runVars, dx>>

SpecFetch == InitFetch /\ [][Fetch]_vars

(***************************************************************************)
(* The date harness: one call of _extract_date_any on a text of at most    *)
(* MaxTokens words.                                                        *)
(***************************************************************************)
InitDate ==
    /\ IdleRun
    /\ fx = IdleFx
    /\ dx \in {[txt |-> t, res |-> NoDate, done |-> FALSE] : t \in SeqsUpTo(DateWords, MaxTokens)}

ExtractDate ==
    /\ ~dx.done
    /\ dx' = [dx EXCEPT !.res = _extract_date_any(dx.txt), !.done = TRUE]
    /\ UNCHANGED <<runVars, fx>>

SpecDate == InitDate /\ [][ExtractDate]_vars

(***************************************************************************)
(* The claims.                                                             *)
(***************************************************************************)
\* the positions of the writes to the publish endpoint among the requests issued
PublishPosts == {i \in 1..Len(net) : net[i].to = "weekly"}

GenerationCalled == \E i \in 1..Len(net) : net[i].to = "generation"

ListingFetched == \E i \in 1..Len(net) : net[i].to = "listing"

\* C1: the write to the publish endpoint is issued at most once, and only after
\* require_env, the event fetch, the generation call and render_html have returned in
\* that order; what is written is the whole rendered fragment; a run that one of the
\* earlier steps aborted has issued no write.
C1_PublishOnceAfterAllSteps ==
    /\ Cardinality(PublishPosts) <= 1
    /\ PublishPosts # {} =>
         /\ Len(steps) >= 4
         /\ SubSeq(steps, 1, 4) = <<"require_env", "fetch_upcoming_iguv_events", "call_openai", "render_html">>
         /\ [i \in 1..Len(net) |-> net[i].to] = <<"listing", "generation", "weekly">>
         /\ render_html(digest, events, settings.EVENTS_COUNT).ok
         /\ net[3].html = render_html(digest, events, settings.EVENTS_COUNT).val
    /\ error.src \in {"require_env", "call_openai", "render_html"} => PublishPosts = {}

\* a run that published and ended with status 0
C1_Witness == pc = "done" /\ PublishPosts # {} /\ exit_code = 0

\* C2: whatever the generation call answers, the run is not aborted because of the
\* answer: after the call only post_to_wp can end the run with an exception, and an
\* unusable answer leaves the empty digest.
C2_ResponseNeverAborts ==
    GenerationCalled =>
        /\ error.src \in {"none", "post_to_wp"}
        /\ (inputs.response.exc \/ ~inputs.response.valid) => digest = EMPTY_DIGEST

\* C3: when the write to the publish endpoint is answered with a status outside 2xx,
\* post_to_wp raises an error holding that status and the response body, SUCCESS is
\* never logged and the process does not exit with status 0 (it exits with 2).
C3_RejectedWriteIsFatal ==
    (PublishPosts # {} /\ ~inputs.wp.err /\ ~(200 <= inputs.wp.status /\ inputs.wp.status <= 299)) =>
        /\ error.src = "post_to_wp"
        /\ error.status = inputs.wp.status
        /\ error.body = inputs.wp.body
        /\ "SUCCESS" \notin Range(log)
        /\ pc \in {"raised", "exited"}
        /\ exit_code # 0
        /\ pc = "exited" => exit_code = 2

\* a run the endpoint answered 403 "denied", ended with status 2
C3_Witness ==
    /\ pc = "exited" /\ exit_code = 2
    /\ inputs.wp.status = 403 /\ error.status = 403 /\ error.body = <<"denied">>

\* C4: when a required setting is empty the run fails in require_env before any
\* network request, and the error names exactly the empty required settings, all of them.
C4_MissingSettingsFailFirst ==
    (pc # "start" /\ \E i \in 1..Len(RequiredSettings) : settings[RequiredSettings[i]] = <<>>) =>
        /\ net = <<>>
        /\ steps = <<>>
        /\ pc \in {"raised", "exited"}
        /\ error.src = "require_env"
        /\ \A i \in 1..Len(RequiredSettings) :
             (RequiredSettings[i] \in Range(error.missing)) <=> (settings[RequiredSettings[i]] = <<>>)

\* a run that ended in require_env with two or more settings named
C4_Witness == pc = "exited" /\ Len(error.missing) >= 2 /\ net = <<>> /\ exit_code = 2

\* C5 as claimed: whenever the fetch of the listing fails, by a network error or by a
\* status other than 200, fetch_upcoming_iguv_events returns no event without raising.
C5_Non200IsEmpty ==
    (ListingFetched /\ (inputs.listing.err \/ inputs.listing.status # 200)) =>
        /\ events = <<>>
        /\ Len(steps) >= 2 /\ steps[2] = "fetch_upcoming_iguv_events"

\* C5 as amended: whenever the fetch of the listing fails, by a network error or by an
\* error status (4xx or 5xx), fetch_upcoming_iguv_events returns no event without
\* raising, and the run goes on: it is never ended by the fetch.
C5_FailedFetchIsEmpty ==
    (ListingFetched /\ (inputs.listing.err \/ (400 <= inputs.listing.status /\ inputs.listing.status <= 599))) =>
        /\ events = <<>>
        /\ Len(steps) >= 2 /\ steps[2] = "fetch_upcoming_iguv_events"
        /\ error.src \notin {"require_env", "fetch_upcoming_iguv_events"}
        /\ pc \notin {"start", "env_ok"}

\* a run whose listing answered 404 with a page holding an event, published and ended with 0
C5_Witness ==
    /\ pc = "done" /\ PublishPosts # {}
    /\ inputs.listing.status = 404 /\ inputs.listing.doc # <<>> /\ events = <<>>

\* the candidates of the harness's listing, before the dedup
FxCandidates == Candidates(fx.resp.doc, fx.today)

FxFetched == fx.done /\ ~fx.resp.err /\ fx.resp.status = 200

\* C6: every event fetch_upcoming_iguv_events returns has a date on or after today,
\* whichever pass produced it.
C6_EventsNotBeforeToday ==
    fx.done => \A i \in 1..Len(fx.out) : ~DateLT(fx.out[i].date_iso, fx.today)

\* a listing with a <time> element dated in the past and an element of the generic
\* pass, of which one event is returned
C6_Witness ==
    /\ fx.done /\ Len(fx.out) = 1
    /\ \E i, j \in 1..Len(fx.resp.doc) :
         /\ fx.resp.doc[i].tag = "time"
         /\ AttrDate(fx.resp.doc[i].datetime).some
         /\ DateLT(AttrDate(fx.resp.doc[i].datetime), fx.today)
         /\ fx.resp.doc[j].tag # "time"

\* C7 as claimed: when two candidates share the same (title, url), the result holds
\* exactly one entry for that pair.
C7_OnePerTitleUrl ==
    FxFetched =>
        \A i, j \in 1..Len(FxCandidates) :
            (i # j /\ FxCandidates[i].title = FxCandidates[j].title
                   /\ FxCandidates[i].url = FxCandidates[j].url) =>
                Cardinality({h \in 1..Len(fx.out) :
                               /\ fx.out[h].title = FxCandidates[i].title
                               /\ fx.out[h].url = FxCandidates[i].url}) = 1

\* the key of the dedup, as the amended claim words it
EventKey(e) == <<e.date_iso, e.url, TextCut(e.title, 80)>>

\* C7 as amended: no two entries of the result share the same (date_iso, url, first 80
\* characters of the title), and when the result holds fewer than n entries every
\* candidate's key is the key of exactly one entry.
C7_OnePerKey ==
    FxFetched =>
        /\ \A h1, h2 \in 1..Len(fx.out) : h1 # h2 => EventKey(fx.out[h1]) # EventKey(fx.out[h2])
        /\ Len(fx.out) < fx.n =>
             \A i \in 1..Len(FxCandidates) :
                 Cardinality({h \in 1..Len(fx.out) : EventKey(fx.out[h]) = EventKey(FxCandidates[i])}) = 1

\* two candidates of one key, of which one entry is returned below the cap
C7_Witness ==
    /\ FxFetched /\ Len(FxCandidates) = 2 /\ Len(fx.out) = 1 /\ fx.n = 2
    /\ EventKey(FxCandidates[1]) = EventKey(FxCandidates[2])

\* the six headings of the fragment
AllTitles == Range(SectionTitles) \cup {EventsTitle}

\* C8: each of the six sections of a rendered fragment has its heading, followed by
\* the placeholder list or by a list that holds an entry: never an empty list.
C8_NoEmptySection ==
    html_out # <<>> =>
        \A title \in AllTitles :
            \E i \in 1..(Len(html_out) - 2) :
                /\ html_out[i] = [k |-> "h2", title |-> title]
                /\ \/ html_out[i + 1].k = "ul_empty"
                   \/ html_out[i + 1].k = "ul" /\ html_out[i + 2].k \in {"li", "li_event", "li_no_events"}

\* whether a text is what html.escape returns: no markup character, every "&" opens an entity
Escaped(s) ==
    \A i \in 1..Len(s) :
        /\ s[i] \notin {"<", ">", "\""}
        /\ s[i] = "&" => (i < Len(s) /\ s[i + 1] \in EntityNames)

\* whether an escaped text holds no tag and is whitespace-normalized
Clean(s) == LET x == unescape(s) IN TagStrip(x) = x /\ Strip(Collapse(x)) = x

\* the response fields of a part of the fragment
FieldsOf(part) ==
    IF part.k = "li" THEN {part.issuer, part.date, part.title, part.url, part.summary}
    ELSE IF part.k = "briefing_link" THEN {part.text, part.href}
    ELSE {}

\* C9: every string field of the response that reaches the fragment is escaped, and
\* holds no tag and no run of whitespace.
C9_FieldsSanitizedAndEscaped ==
    \A i \in 1..Len(html_out) : \A f \in FieldsOf(html_out[i]) : Escaped(f) /\ Clean(f)

\* the numeric date literals of the harness's text
DxNums == {i \in 1..Len(dx.txt) : dx.txt[i].k = "num"}

DxValid(i) == ValidDate(dx.txt[i].yyyy, dx.txt[i].mm, dx.txt[i].dd)

\* C10: for a text that holds a date dd.mm.yyyy, _extract_date_any returns that day,
\* month and year (of the first one); when the text's dd.mm.yyyy are all impossible
\* dates it returns None.
C10_NumericDateOrNone ==
    (dx.done /\ DxNums # {}) =>
        /\ \A i \in DxNums :
             (DxValid(i) /\ \A j \in DxNums : i <= j) =>
                 dx.res = SomeDate(dx.txt[i].yyyy, dx.txt[i].mm, dx.txt[i].dd)
        /\ (\A i \in DxNums : ~DxValid(i)) => dx.res = NoDate

\* C11: for every limit n >= 0 and every listing, fetch_upcoming_iguv_events returns at
\* most n events.
C11_AtMostNEvents == fx.done => Len(fx.out) <= fx.n

====
